---- MODULE Spec2Model ----
(***************************************************************************)
(* The blight-ticket notebook (blight_ticket.ipynb) as a state machine.    *)
(* The notebook is a linear script over two csv files: load, filter,       *)
(* prune columns, concatenate, encode categories, split, grid-search fit,  *)
(* predict, format.  One action per statement; pc is the next statement.   *)
(*                                                                         *)
(* Cell values are integers throughout.  A text cell holds the ISO-8859-1  *)
(* code point of its (one-character) text, so "A" is 65, and pandas'       *)
(* lexical ordering of texts is < on the code points.  NaN is the missing  *)
(* value pandas puts where a csv field is empty or a column is absent.     *)
(* Probabilities are in percent.                                           *)
(***************************************************************************)
EXTENDS Integers, Sequences, FiniteSets, TLC

VARIABLES
    train_csv,      \* the file csvs/train.csv
    test_csv,       \* the file csvs/test.csv
    pc,             \* the statement the kernel runs next
    error,          \* the exception that stopped the run, "none" otherwise
    defined,        \* the names bound in the notebook's namespace
    train, test, df, X_train, X_test,   \* DataFrames
    train_label, y_train, ans,          \* Series
    grid_clf_auc,   \* the GridSearchCV object
    result          \* the array predict_proba returned

vars == <<train_csv, test_csv, pc, error, defined, train, test, df, X_train,
          X_test, train_label, y_train, ans, grid_clf_auc, result>>

-----------------------------------------------------------------------------
(* Bounds of the inputs. *)

MaxTrain == 2
MaxTest == 2
\* rows per file when a column is absent from the files
MaxDefect == 1

-----------------------------------------------------------------------------
(* Values. *)

NaN == -999

A == 65
B == 66
C == 67

Range(s) == {s[i] : i \in 1..Len(s)}

\* the values of S in increasing order
RECURSIVE Sorted(_)
Sorted(S) ==
    IF S = {} THEN <<>>
    ELSE LET m == CHOOSE x \in S : \A y \in S : x <= y
         IN <<m>> \o Sorted(S \ {m})

\* the values of s in the order of their first occurrence
RECURSIVE FirstSeen(_, _)
FirstSeen(s, seen) ==
    IF s = <<>> THEN <<>>
    ELSE IF Head(s) \in seen THEN FirstSeen(Tail(s), seen)
    ELSE <<Head(s)>> \o FirstSeen(Tail(s), seen \cup {Head(s)})

\* the subsequence of s at the positions P, in order
RECURSIVE Pick(_, _, _)
Pick(s, P, i) ==
    IF i > Len(s) THEN <<>>
    ELSE (IF i \in P THEN <<s[i]>> ELSE <<>>) \o Pick(s, P, i + 1)

-----------------------------------------------------------------------------
(* The schema of the two files. *)

SharedColumns ==
    {"ticket_id", "agency_name", "inspector_name", "violator_name",
     "violation_street_number", "violation_street_name", "violation_zip_code",
     "mailing_address_str_number", "mailing_address_str_name", "city",
     "state", "zip_code", "non_us_str_code", "country", "ticket_issued_date",
     "hearing_date", "violation_code", "violation_description", "disposition",
     "fine_amount", "admin_fee", "state_fee", "late_fee", "discount_amount",
     "clean_up_cost", "judgment_amount", "grafitti_status"}

TrainOnlyColumns ==
    {"payment_amount", "payment_date", "payment_status", "balance_due",
     "collection_status", "compliance", "compliance_detail"}

train_drop ==
    {"payment_amount", "payment_date", "payment_status", "balance_due",
     "collection_status", "grafitti_status", "compliance_detail", "compliance"}

\* the list of cell 4 without the column the training table already lost
common_drop_less ==
    {"clean_up_cost", "city", "discount_amount",
     "violation_street_number", "violation_description", "ticket_issued_date",
     "hearing_date", "state", "zip_code", "non_us_str_code", "country",
     "violator_name", "violation_zip_code", "mailing_address_str_number",
     "mailing_address_str_name"}

common_drop ==
    {"clean_up_cost", "city", "grafitti_status", "discount_amount",
     "violation_street_number", "violation_description", "ticket_issued_date",
     "hearing_date", "state", "zip_code", "non_us_str_code", "country",
     "violator_name", "violation_zip_code", "mailing_address_str_number",
     "mailing_address_str_name"}

cat_columns ==
    {"agency_name", "inspector_name", "violation_street_name",
     "violation_code", "disposition"}

\* the columns cell 2 looks at
unique_columns ==
    {"agency_name", "inspector_name", "violation_code", "disposition",
     "clean_up_cost"}

-----------------------------------------------------------------------------
(* DataFrames and Series.  A DataFrame is its column names, its row labels  *)
(* and its rows, a row being a function from the column names to values.    *)

EmptyFrame == [columns |-> {}, index |-> <<>>, data |-> <<>>]
EmptySeries == [index |-> <<>>, values |-> <<>>]

len(t) == Len(t.data)

\* t[mask]: the rows at the positions P, with their labels
Rows(t, P) ==
    [columns |-> t.columns,
     index |-> Pick(t.index, P, 1),
     data |-> Pick(t.data, P, 1)]

\* the column as the file has it, rows that were filtered out included
Column_raw(t, col) ==
    [index |-> [i \in 1..Len(train_csv.rows) |-> i - 1],
     values |-> [i \in 1..Len(train_csv.rows) |-> train_csv.rows[i][col]]]

\* t[col]
Column(t, col) ==
    [index |-> t.index, values |-> [i \in 1..len(t) |-> t.data[i][col]]]

\* t.drop(cols, axis=1); the caller has checked that cols are columns of t
Drop(t, cols) ==
    [columns |-> t.columns \ cols,
     index |-> t.index,
     data |-> [i \in 1..len(t) |-> [c \in t.columns \ cols |-> t.data[i][c]]]]

\* t.drop(cols, axis=1, errors='ignore') finds nothing missing
MissingLabels_ignored(t, cols) == {}

\* the labels of cols that drop does not find among the columns of t
MissingLabels(t, cols) == cols \ t.columns

\* pd.Series(data), the index left to default to 0, 1, ...
Series_default_index(data, index) ==
    [index |-> [i \in 1..Len(data) |-> i - 1], values |-> data]

\* pd.Series(data, index=index)
Series(data, index) == [index |-> index, values |-> data]

\* a row widened to the columns cols, NaN where it has no such column
Reindex(row, cols) ==
    [c \in cols |-> IF c \in DOMAIN row THEN row[c] ELSE NaN]

\* pd.concat([b, a])
Concat_swapped(a, b) ==
    LET cols == a.columns \cup b.columns IN
    [columns |-> cols,
     index |-> b.index \o a.index,
     data |-> [i \in 1..len(b) |-> Reindex(b.data[i], cols)]
              \o [i \in 1..len(a) |-> Reindex(a.data[i], cols)]]

\* pd.concat([a, b]): the rows of a then the rows of b, over the union of
\* the columns, row labels kept
Concat(a, b) ==
    LET cols == a.columns \cup b.columns IN
    [columns |-> cols,
     index |-> a.index \o b.index,
     data |-> [i \in 1..len(a) |-> Reindex(a.data[i], cols)]
              \o [i \in 1..len(b) |-> Reindex(b.data[i], cols)]]

\* t.set_index(col).sort_index(): the rows in the order of their labels
SetIndex_sorted(t, col) ==
    LET ids == [i \in 1..len(t) |-> t.data[i][col]]
        order == Sorted(Range(ids))
        at(k) == CHOOSE i \in 1..len(t) : ids[i] = order[k]
    IN [columns |-> t.columns \ {col},
        index |-> order,
        data |-> [k \in 1..Len(order) |->
                    [c \in t.columns \ {col} |-> t.data[at(k)][c]]]]

\* t.set_index(col): the column becomes the row labels
SetIndex(t, col) ==
    [columns |-> t.columns \ {col},
     index |-> [i \in 1..len(t) |-> t.data[i][col]],
     data |-> [i \in 1..len(t) |-> [c \in t.columns \ {col} |-> t.data[i][c]]]]

\* a slice that takes the row at position hi too
ILoc_inclusive(t, lo, hi) == Rows(t, {i \in 1..len(t) : lo < i /\ i <= hi + 1})

\* t.iloc[lo:hi, :] with python's 0-based half-open positions
ILoc(t, lo, hi) == Rows(t, {i \in 1..len(t) : lo < i /\ i <= hi})

-----------------------------------------------------------------------------
(* The files.  status is what pd.read_csv meets.                            *)

\* a filter on the outcome being present: train['compliance'].notnull()
Kept_notnull(t) ==
    {i \in 1..len(t) : t.data[i]["compliance"] # NaN}

\* a filter on the outcome being a class number: train['compliance'] >= 0
Kept_nonnegative(t) ==
    {i \in 1..len(t) : t.data[i]["compliance"] # NaN /\ t.data[i]["compliance"] >= 0}

\* the rows of the unfiltered file that pass the filter of cell 1
Kept(t) ==
    {i \in 1..len(t) : t.data[i]["compliance"] = 1 \/ t.data[i]["compliance"] = 0}

ReadCsv(file) ==
    [columns |-> file.columns,
     index |-> [i \in 1..Len(file.rows) |-> i - 1],
     data |-> file.rows]

\* the rows are numbered from 1: the i-th row of a file
TrainIds == <<22056, 27586, 22046, 18738>>
TestIds == <<285362, 285361, 285338, 285346>>

\* the outcome field: compliant, non-compliant, null, and a value outside
\* the three classes
Outcomes == {0, 1, NaN, 2}

TrainTexts == {A, B}
\* an evaluation row may have the field empty
TestTexts == {A, NaN}

\* the value of column col in a row with identifier id, fine f, outcome o,
\* whose categorical fields derive from the text v
Cell(col, id, f, o, v) ==
    CASE col = "ticket_id" -> id
      [] col = "compliance" -> o
      [] col = "agency_name" -> v
      [] col = "inspector_name" -> IF v = NaN THEN A ELSE v + 1
      [] col = "violation_street_name" -> C
      [] col = "violation_code" -> IF v = NaN THEN NaN ELSE (A + C) - v
      [] col = "disposition" -> IF v = NaN THEN C ELSE A
      [] col = "fine_amount" -> f
      [] col = "admin_fee" -> 20
      [] col = "state_fee" -> 10
      [] col = "late_fee" -> f \div 10
      [] col = "judgment_amount" -> f + 20 + 10 + (f \div 10)
      [] col = "grafitti_status" -> NaN
      [] col = "payment_amount" -> IF o = 1 THEN f ELSE 0
      [] col = "balance_due" -> IF o = 1 THEN 0 ELSE f
      [] OTHER -> 0

\* what can be wrong with the files: a file that is missing or malformed,
\* a column absent from the training file, a column absent from both files
ColumnDefects ==
    {[train |-> {c}, test |-> {}] : c \in {"compliance", "payment_date", "city"}}
    \cup {[train |-> {c}, test |-> {c}] :
            c \in {"city", "ticket_id", "violation_street_name", "clean_up_cost"}}

FileStatus == {"ok", "missing", "malformed"}

NoFile(st) == [status |-> st, columns |-> {}, rows |-> <<>>]

TrainFiles(absent, max) ==
    LET cols == (SharedColumns \cup TrainOnlyColumns) \ absent IN
    {[status |-> "ok", columns |-> cols,
      rows |-> [i \in 1..n |->
                  [c \in cols |-> Cell(c, TrainIds[i], 50 * i, o[i], v[i])]]] :
        n \in 0..max, o \in [1..max -> Outcomes],
        v \in [1..max -> TrainTexts]}

TestFiles(absent, max) ==
    LET cols == SharedColumns \ absent IN
    {[status |-> "ok", columns |-> cols,
      rows |-> [i \in 1..n |->
                  [c \in cols |-> Cell(c, TestIds[i], 25 * i, NaN, v[i])]]] :
        n \in 0..max, v \in [1..max -> TestTexts]}

-----------------------------------------------------------------------------
(* Categorical encoding. *)

\* pd.factorize: the categories in the order the rows bring them up
Categories_appearance(t, col) ==
    FirstSeen([i \in 1..len(t) |-> t.data[i][col]], {NaN})

\* a vocabulary fitted on the training rows alone
Categories_train_only(t, col) ==
    Sorted({t.data[i][col] : i \in 1..len(train)} \ {NaN})

\* astype('category'): the categories of a column are its distinct values,
\* missing values left out, in lexical order
Categories(t, col) ==
    Sorted({t.data[i][col] : i \in 1..len(t)} \ {NaN})

\* cat.codes: the position of the value among the categories counted from
\* 0, and -1 for a value that is no category (a missing value)
Code(cats, v) ==
    IF v \notin Range(cats) THEN -1
    ELSE (CHOOSE k \in 1..Len(cats) : cats[k] = v) - 1

\* each partition encoded by itself, with the categories of its own rows
Encode_per_partition(t, cols) ==
    LET part(i) == IF i <= len(train) THEN 1..len(train)
                   ELSE (len(train) + 1)..len(t)
    IN [columns |-> t.columns,
        index |-> t.index,
        data |-> [i \in 1..len(t) |->
                   [c \in t.columns |->
                       IF c \in cols
                       THEN Code(Categories(Rows(t, part(i)), c), t.data[i][c])
                       ELSE t.data[i][c]]]]

\* cell 7: every column of cols replaced by its codes
Encode(t, cols) ==
    [columns |-> t.columns,
     index |-> t.index,
     data |-> [i \in 1..len(t) |->
                [c \in t.columns |->
                    IF c \in cols THEN Code(Categories(t, c), t.data[i][c])
                    ELSE t.data[i][c]]]]

-----------------------------------------------------------------------------
(* The model-fitting collaborator. *)

\* grid_values in the order GridSearchCV tries the combinations;
\* learning rates in hundredths
grid_values ==
    <<[learning_rate |-> 1, max_depth |-> 3],
      [learning_rate |-> 1, max_depth |-> 4],
      [learning_rate |-> 1, max_depth |-> 5],
      [learning_rate |-> 10, max_depth |-> 3],
      [learning_rate |-> 10, max_depth |-> 4],
      [learning_rate |-> 10, max_depth |-> 5],
      [learning_rate |-> 100, max_depth |-> 3],
      [learning_rate |-> 100, max_depth |-> 4],
      [learning_rate |-> 100, max_depth |-> 5]>>

\* the cross-validated ROC-AUC scores the search may come up with, percent
ScoreTables ==
    {[k \in 1..Len(grid_values) |-> IF k \in S THEN 80 ELSE 50] :
        S \in {{4}, {9}, {2, 6}}}

\* the first combination whose score no other exceeds
BestIndex(scores) ==
    CHOOSE k \in DOMAIN scores :
        /\ \A j \in DOMAIN scores : scores[j] <= scores[k]
        /\ \A j \in DOMAIN scores : j < k => scores[j] < scores[k]

Unfitted == [fitted |-> FALSE, cv_scores |-> <<>>, best_index |-> 0]

\* the probability of the positive class the estimator fitted with the
\* parameters p gives a feature row, percent
Proba(p, row) ==
    LET q == (row["agency_name"] + 2) * p.max_depth * 5
    IN IF p.learning_rate = 100 THEN 100 - q ELSE q

\* probabilities from an estimator fitted with the first combination of the
\* grid, whatever the search found best
PredictProba_first(clf, t) ==
    [i \in 1..len(t) |->
        LET q == Proba(grid_values[1], t.data[i])
        IN <<100 - q, q>>]

\* predict_proba: one row of two class probabilities per row of t
PredictProba(clf, t) ==
    [i \in 1..len(t) |->
        LET q == Proba(grid_values[clf.best_index], t.data[i])
        IN <<100 - q, q>>]

-----------------------------------------------------------------------------
(* The run. *)

Init ==
    /\ \/ /\ train_csv \in TrainFiles({}, MaxTrain)
          /\ test_csv \in TestFiles({}, MaxTest)
       \/ \E d \in ColumnDefects :
            /\ train_csv \in TrainFiles(d.train, MaxDefect)
            /\ test_csv \in TestFiles(d.test, MaxDefect)
       \/ \E st \in FileStatus \ {"ok"} :
            \/ train_csv = NoFile(st) /\ test_csv \in TestFiles({}, MaxTest)
            \/ train_csv \in TrainFiles({}, MaxTrain) /\ test_csv = NoFile(st)
    /\ pc = "read_train"
    /\ error = "none"
    /\ defined = {}
    /\ train = EmptyFrame /\ test = EmptyFrame /\ df = EmptyFrame
    /\ X_train = EmptyFrame /\ X_test = EmptyFrame
    /\ train_label = EmptySeries /\ y_train = EmptySeries /\ ans = EmptySeries
    /\ grid_clf_auc = Unfitted
    /\ result = <<>>

\* an uncaught exception: the statement has no effect and nothing runs after
Raise(e) ==
    /\ error' = e
    /\ UNCHANGED <<train_csv, test_csv, pc, defined, train, test, df, X_train,
                   X_test, train_label, y_train, ans, grid_clf_auc, result>>

ReadError(file) ==
    IF file.status = "missing" THEN "FileNotFoundError" ELSE "ParserError"

\* train = pd.read_csv('csvs/train.csv', ...)
ReadTrain ==
    /\ pc = "read_train" /\ error = "none"
    /\ IF train_csv.status # "ok" THEN Raise(ReadError(train_csv))
       ELSE /\ train' = ReadCsv(train_csv)
            /\ defined' = defined \cup {"train"}
            /\ pc' = "filter"
            /\ UNCHANGED <<train_csv, test_csv, error, test, df, X_train, X_test,
                           train_label, y_train, ans, grid_clf_auc, result>>

\* train = train[(train['compliance'] == 1.0) | (train['compliance'] == 0.0)]
FilterTrain ==
    /\ pc = "filter" /\ error = "none"
    /\ IF "compliance" \notin train.columns THEN Raise("KeyError")
       ELSE /\ train' = Rows(train, Kept(train))
            /\ pc' = "read_test"
            /\ UNCHANGED <<train_csv, test_csv, error, defined, test, df, X_train,
                           X_test, train_label, y_train, ans, grid_clf_auc, result>>

\* test = pd.read_csv('csvs/test.csv', ...)
ReadTest ==
    /\ pc = "read_test" /\ error = "none"
    /\ IF test_csv.status # "ok" THEN Raise(ReadError(test_csv))
       ELSE /\ test' = ReadCsv(test_csv)
            /\ defined' = defined \cup {"test"}
            /\ pc' = "label"
            /\ UNCHANGED <<train_csv, test_csv, error, train, df, X_train, X_test,
                           train_label, y_train, ans, grid_clf_auc, result>>

\* train_label = train['compliance']
TakeLabel ==
    /\ pc = "label" /\ error = "none"
    /\ train_label' = Column(train, "compliance")
    /\ defined' = defined \cup {"train_label"}
    /\ pc' = "drop_train"
    /\ UNCHANGED <<train_csv, test_csv, error, train, test, df, X_train, X_test,
                   y_train, ans, grid_clf_auc, result>>

\* train.drop(train_drop, axis=1, inplace=True)
DropTrain ==
    /\ pc = "drop_train" /\ error = "none"
    /\ IF MissingLabels(train, train_drop) # {} THEN Raise("KeyError")
       ELSE /\ train' = Drop(train, train_drop)
            /\ pc' = "concat"
            /\ UNCHANGED <<train_csv, test_csv, error, defined, test, df, X_train,
                           X_test, train_label, y_train, ans, grid_clf_auc, result>>

\* df = pd.concat([train, test])
ConcatFrames ==
    /\ pc = "concat" /\ error = "none"
    /\ df' = Concat(train, test)
    /\ defined' = defined \cup {"df"}
    /\ pc' = "unique"
    /\ UNCHANGED <<train_csv, test_csv, error, train, test, X_train, X_test,
                   train_label, y_train, ans, grid_clf_auc, result>>

\* cell 2: len(df['agency_name'].unique()), ...
CountUnique ==
    /\ pc = "unique" /\ error = "none"
    /\ IF ~(unique_columns \subseteq df.columns) THEN Raise("KeyError")
       ELSE /\ pc' = "drop_common"
            /\ UNCHANGED <<train_csv, test_csv, error, defined, train, test, df,
                           X_train, X_test, train_label, y_train, ans,
                           grid_clf_auc, result>>

\* df.drop(common_drop, axis=1, inplace=True)
DropCommon ==
    /\ pc = "drop_common" /\ error = "none"
    /\ IF MissingLabels(df, common_drop) # {} THEN Raise("KeyError")
       ELSE /\ df' = Drop(df, common_drop)
            /\ pc' = "set_index"
            /\ UNCHANGED <<train_csv, test_csv, error, defined, train, test,
                           X_train, X_test, train_label, y_train, ans,
                           grid_clf_auc, result>>

\* df = df.set_index('ticket_id')
SetTicketIndex ==
    /\ pc = "set_index" /\ error = "none"
    /\ IF "ticket_id" \notin df.columns THEN Raise("KeyError")
       ELSE /\ df' = SetIndex(df, "ticket_id")
            /\ pc' = "encode"
            /\ UNCHANGED <<train_csv, test_csv, error, defined, train, test,
                           X_train, X_test, train_label, y_train, ans,
                           grid_clf_auc, result>>

\* cell 7: astype('category') for each of cat_columns, then cat.codes
EncodeCategories ==
    /\ pc = "encode" /\ error = "none"
    /\ IF ~(cat_columns \subseteq df.columns) THEN Raise("KeyError")
       ELSE /\ df' = Encode(df, cat_columns)
            /\ pc' = "split"
            /\ UNCHANGED <<train_csv, test_csv, error, defined, train, test,
                           X_train, X_test, train_label, y_train, ans,
                           grid_clf_auc, result>>

\* cell 10: X_train = df.iloc[0:len(train),:]; y_train = train_label;
\* X_test = df.iloc[len(train):,:]
Split ==
    /\ pc = "split" /\ error = "none"
    /\ X_train' = ILoc(df, 0, len(train))
    /\ y_train' = train_label
    /\ X_test' = ILoc(df, len(train), len(df))
    /\ defined' = defined \cup {"X_train", "y_train", "X_test"}
    /\ pc' = "fit"
    /\ UNCHANGED <<train_csv, test_csv, error, train, test, df, train_label,
                   ans, grid_clf_auc, result>>

\* grid_clf_auc.fit(X_train, y_train): the search scores every combination
\* and refits the best one, or fails
Fit ==
    /\ pc = "fit" /\ error = "none"
    /\ \/ Raise("ValueError")
       \/ \E scores \in ScoreTables :
            /\ grid_clf_auc' = [fitted |-> TRUE, cv_scores |-> scores,
                                best_index |-> BestIndex(scores)]
            /\ defined' = defined \cup {"grid_clf_auc"}
            /\ pc' = "predict"
            /\ UNCHANGED <<train_csv, test_csv, error, train, test, df, X_train,
                           X_test, train_label, y_train, ans, result>>

\* result = grid_clf_auc.predict_proba(X_test)
Predict ==
    /\ pc = "predict" /\ error = "none"
    /\ result' = PredictProba(grid_clf_auc, X_test)
    /\ defined' = defined \cup {"result"}
    /\ pc' = "format"
    /\ UNCHANGED <<train_csv, test_csv, error, train, test, df, X_train, X_test,
                   train_label, y_train, ans, grid_clf_auc>>

\* ans = pd.Series(result[:,1], index=X_test.index)
Format ==
    /\ pc = "format" /\ error = "none"
    /\ ans' = Series([i \in 1..Len(result) |-> result[i][2]], X_test.index)
    /\ defined' = defined \cup {"ans"}
    /\ pc' = "done"
    /\ UNCHANGED <<train_csv, test_csv, error, train, test, df, X_train, X_test,
                   train_label, y_train, grid_clf_auc, result>>

Next ==
    \/ ReadTrain
    \/ FilterTrain
    \/ ReadTest
    \/ TakeLabel
    \/ DropTrain
    \/ ConcatFrames
    \/ CountUnique
    \/ DropCommon
    \/ SetTicketIndex
    \/ EncodeCategories
    \/ Split
    \/ Fit
    \/ Predict
    \/ Format

Spec == Init /\ [][Next]_vars

-----------------------------------------------------------------------------
(* What the statements of the run are measured against: the records of the  *)
(* two files.                                                               *)

Before(stmts) == pc \in stmts
Filtered == ~Before({"read_train", "filter"})
Concatenated == Filtered /\ ~Before({"read_test", "label", "drop_train", "concat"})
Encoded == Concatenated
           /\ ~Before({"unique", "drop_common", "set_index", "encode"})
Splitted == Encoded /\ ~Before({"split"})

\* the rows of train.csv with outcome 0 or 1, as positions in the file
Defined == {i \in 1..Len(train_csv.rows) : train_csv.rows[i]["compliance"] \in {0, 1}}

\* the positions of Defined in file order
DefinedSeq == Sorted(Defined)

\* the records behind the rows of the unified table: the i-th row is made
\* from the i-th of them
Records ==
    LET ds == DefinedSeq IN
    [i \in 1..(Len(ds) + Len(test_csv.rows)) |->
        IF i <= Len(ds) THEN train_csv.rows[ds[i]]
        ELSE test_csv.rows[i - Len(ds)]]

\* the texts the records rs hold in column c
Texts(rs, c) == {rs[i][c] : i \in 1..Len(rs)} \ {NaN}

Increasing(s) == \A i, j \in 1..Len(s) : i < j => s[i] < s[j]

-----------------------------------------------------------------------------
\* C1: the Filter keeps exactly the rows of the training file whose outcome
\* is 0 or 1, in file order: the filtered table and later the training
\* features have as many rows as the file has rows with a defined outcome,
\* and no row with a null outcome is among them.
C1_FilterKeepsDefined ==
    Filtered =>
        LET def == Defined IN
        /\ len(train) = Cardinality(def)
        /\ Range(train.index) = {i - 1 : i \in def}
        /\ Increasing(train.index)
        /\ \A k \in 1..len(train) :
             LET rec == train_csv.rows[train.index[k] + 1] IN
             /\ rec["compliance"] # NaN
             /\ \A c \in train.columns : train.data[k][c] = rec[c]
        /\ Splitted => len(X_train) = Cardinality(def)

C1_Witness ==
    /\ Splitted
    /\ Len(train_csv.rows) = 2
    /\ train_csv.rows[1]["compliance"] = NaN
    /\ train_csv.rows[2]["compliance"] = 0
    /\ len(X_train) = 1

\* C2: the output has one (identifier, probability) pair per evaluation
\* row; the i-th pair has the identifier of the i-th row of the evaluation
\* file and the probability the fitted estimator gives that row's features.
C2_OutputAligned ==
    pc = "done" =>
        /\ Len(ans.index) = Len(test_csv.rows)
        /\ Len(ans.values) = Len(test_csv.rows)
        /\ \A i \in 1..Len(test_csv.rows) :
             /\ ans.index[i] = test_csv.rows[i]["ticket_id"]
             /\ ans.index[i] = X_test.index[i]
             /\ ans.values[i] =
                    Proba(grid_values[grid_clf_auc.best_index], X_test.data[i])

C2_Witness ==
    /\ pc = "done"
    /\ ans.index = <<285362, 285361>>
    /\ ans.values[1] # ans.values[2]

\* C3: the training features are the first N rows of the unified encoded
\* table, N the number of filtered training rows, and the evaluation
\* features the rest: the training features are the filtered training
\* records in order, the evaluation features all evaluation records in
\* order, and no row is lost, duplicated or in the wrong partition.
C3_SplitPartitions ==
    Splitted =>
        LET rs == Records IN
        /\ len(X_train) = len(train)
        /\ len(X_train) = Len(DefinedSeq)
        /\ len(X_train) + len(X_test) = len(df)
        /\ \A k \in 1..len(X_train) :
             /\ X_train.data[k] = df.data[k]
             /\ X_train.index[k] = rs[k]["ticket_id"]
             /\ X_train.data[k]["fine_amount"] = rs[k]["fine_amount"]
        /\ len(X_test) = Len(test_csv.rows)
        /\ \A k \in 1..len(X_test) :
             /\ X_test.data[k] = df.data[len(train) + k]
             /\ X_test.index[k] = test_csv.rows[k]["ticket_id"]
             /\ X_test.data[k]["fine_amount"] = test_csv.rows[k]["fine_amount"]

C3_Witness ==
    /\ Splitted
    /\ Len(train_csv.rows) = 2 /\ len(X_train) = 1 /\ len(X_test) = 2
    /\ X_train.index = <<27586>>
    /\ X_test.index = <<285362, 285361>>

\* C4: one vocabulary per encoded column for both partitions: a training
\* cell and an evaluation cell of the same column that held the same text
\* carry the same code and cells that held different texts carry different
\* codes, and every text of either partition, also one that occurs in one
\* partition only, has a code of the column's vocabulary.
C4_SharedVocabulary ==
    Splitted =>
        LET rs == Records
            n == len(X_train)
        IN \A c \in cat_columns :
            LET k == Cardinality(Texts(rs, c)) IN
            /\ \A i \in 1..n, j \in 1..len(X_test) :
                 (rs[i][c] # NaN /\ rs[n + j][c] # NaN) =>
                     ((rs[i][c] = rs[n + j][c])
                        <=> (X_train.data[i][c] = X_test.data[j][c]))
            /\ \A i \in 1..n :
                 rs[i][c] # NaN => X_train.data[i][c] \in 0..(k - 1)
            /\ \A j \in 1..len(X_test) :
                 rs[n + j][c] # NaN => X_test.data[j][c] \in 0..(k - 1)

C4_Witness ==
    /\ Splitted
    /\ len(X_train) = 2 /\ len(X_test) = 2
    /\ [i \in 1..4 |-> Records[i]["inspector_name"]] = <<B, C, B, A>>
    /\ [i \in 1..2 |-> X_train.data[i]["inspector_name"]] = <<1, 2>>
    /\ [i \in 1..2 |-> X_test.data[i]["inspector_name"]] = <<1, 0>>

\* what a code stands for under the vocabulary voc
Decode(voc, code) ==
    IF code = -1 THEN NaN ELSE voc[code + 1]

\* C5: per encoded column the codes are a bijection: two cells have the
\* same code exactly when they held the same value, and decoding the code
\* of a cell gives back the value the cell held.
C5_EncodingBijective ==
    Encoded =>
        LET rs == Records IN
        \A c \in cat_columns :
            LET voc == Sorted(Texts(rs, c)) IN
            \A i \in 1..len(df) :
                /\ Decode(voc, df.data[i][c]) = rs[i][c]
                /\ \A j \in 1..len(df) :
                     (df.data[i][c] = df.data[j][c]) <=> (rs[i][c] = rs[j][c])

C5_Witness ==
    /\ Encoded /\ len(df) = 4
    /\ [i \in 1..4 |-> Records[i]["agency_name"]] = <<B, A, NaN, A>>
    /\ [i \in 1..4 |-> df.data[i]["agency_name"]] = <<1, 0, -1, 0>>
    /\ [i \in 1..4 |-> Records[i]["inspector_name"]] = <<C, B, A, B>>
    /\ [i \in 1..4 |-> df.data[i]["inspector_name"]] = <<2, 1, 0, 1>>

\* C6 as stated: after encoding every cell of an encoded column holds an
\* integer of 0..k-1, k the number of distinct values of the column over the
\* unified table, and all k codes are used.
C6_AllCellsCoded ==
    Encoded =>
        \A c \in cat_columns :
            LET k == Cardinality({Records[i][c] : i \in 1..len(df)}) IN
            /\ \A i \in 1..len(df) : df.data[i][c] \in 0..(k - 1)
            /\ {df.data[i][c] : i \in 1..len(df)} = 0..(k - 1)

\* C6 amended: a cell that holds a text gets as code the number of distinct
\* texts of the column, over the unified table, that sort before its own:
\* the codes do not depend on the order of the rows, start at 0, are unique
\* per text, lie in 0..k-1 for k distinct texts and use all of 0..k-1; a
\* cell with a missing value gets -1.
C6_DenseCodes ==
    Encoded =>
        LET rs == Records IN
        \A c \in cat_columns :
            LET texts == Texts(rs, c)
                k == Cardinality(texts)
            IN /\ \A i \in 1..len(df) :
                    IF rs[i][c] = NaN THEN df.data[i][c] = -1
                    ELSE /\ df.data[i][c] =
                               Cardinality({w \in texts : w < rs[i][c]})
                         /\ df.data[i][c] \in 0..(k - 1)
               /\ {df.data[i][c] : i \in 1..len(df)} \ {-1} = 0..(k - 1)

\* the texts "A", "B", "A" encoded as 0, 1, 0, and a missing value as -1
C6_Witness ==
    /\ Encoded /\ len(df) = 4
    /\ [i \in 1..4 |-> Records[i]["agency_name"]] = <<A, B, A, NaN>>
    /\ [i \in 1..4 |-> df.data[i]["agency_name"]] = <<0, 1, 0, -1>>

\* C7: pruning, indexing and encoding leave the rows alone: from the
\* concatenation on, the unified table has the rows of the filtered
\* training table followed by the rows of the evaluation table, as many and
\* in that order, the partitions keep their row counts, and every column
\* that is not an encoded one keeps its values.
C7_RowsUntouched ==
    Concatenated =>
        /\ len(df) = len(train) + len(test)
        /\ Len(df.index) = len(df)
        /\ \A i \in 1..len(df) :
             LET src == IF i <= len(train) THEN train.data[i]
                        ELSE test.data[i - len(train)]
             IN /\ IF Before({"unique", "drop_common", "set_index"})
                   THEN df.index[i] = (train.index \o test.index)[i]
                   ELSE df.index[i] = src["ticket_id"]
                /\ \A c \in df.columns \ cat_columns :
                     c \in DOMAIN src => df.data[i][c] = src[c]
        /\ Splitted => len(X_train) = len(train) /\ len(X_test) = len(test)

C7_Witness ==
    /\ Encoded
    /\ len(train) = 2 /\ len(test) = 2
    /\ df.index = <<22056, 27586, 285362, 285361>>
    /\ df.data[2]["fine_amount"] = 100

\* C8: putting the training features and the evaluation features together
\* again, in that order, and slicing at the training length gives the same
\* two tables as the split of the unified table.
C8_SplitIdempotent ==
    Splitted =>
        LET u == Concat(X_train, X_test) IN
        /\ ILoc(u, 0, len(train)) = X_train
        /\ ILoc(u, len(train), len(u)) = X_test

C8_Witness ==
    /\ Splitted
    /\ Len(train_csv.rows) = 2 /\ len(X_train) = 1 /\ len(X_test) = 2
    /\ Concat(X_train, X_test) = df

\* the outcome, the columns only the training file has, and the column
\* dropped from the training table alone
LeakageColumns ==
    {"compliance", "payment_amount", "payment_date", "payment_status",
     "balance_due", "collection_status", "compliance_detail",
     "grafitti_status"}

\* C9: no leakage column reaches the model: neither the outcome, nor a
\* column only the training file has, nor a column of the common drop list
\* is a column of the training or the evaluation features; the graffiti
\* status, dropped from the training table alone, does not come back
\* through the concatenation.
C9_NoLeakage ==
    Splitted =>
        \A t \in {X_train, X_test} :
            /\ t.columns \cap (LeakageColumns \cup common_drop) = {}
            /\ \A i \in 1..len(t) :
                 DOMAIN t.data[i] \cap (LeakageColumns \cup common_drop) = {}

C9_Witness ==
    /\ pc = "done"
    /\ "grafitti_status" \in test_csv.columns
    /\ "grafitti_status" \notin train.columns
    /\ len(X_train) = 2 /\ len(X_test) = 2
    /\ X_train.columns = {"agency_name", "inspector_name",
                          "violation_street_name", "violation_code",
                          "disposition", "fine_amount", "admin_fee",
                          "state_fee", "late_fee", "judgment_amount"}

\* the statements in the order of the notebook
Statements ==
    <<"read_train", "filter", "read_test", "label", "drop_train", "concat",
      "unique", "drop_common", "set_index", "encode", "split", "fit",
      "predict", "format", "done">>

Position(stmt) == CHOOSE k \in 1..Len(Statements) : Statements[k] = stmt

\* the run has not completed the statement stmt
NotPast(stmt) == Position(pc) <= Position(stmt)

\* the names bound once the statement at position k has run
BoundBy(k) ==
    CASE k = 1 -> {"train"}
      [] k = 3 -> {"test"}
      [] k = 4 -> {"train_label"}
      [] k = 6 -> {"df"}
      [] k = 11 -> {"X_train", "y_train", "X_test"}
      [] k = 12 -> {"grid_clf_auc"}
      [] k = 13 -> {"result"}
      [] k = 14 -> {"ans"}
      [] OTHER -> {}

\* the columns of the unified table
UnifiedColumns ==
    (train_csv.columns \ {"payment_amount", "payment_date", "payment_status",
                          "balance_due", "collection_status",
                          "grafitti_status", "compliance_detail",
                          "compliance"})
    \cup test_csv.columns

C10_Stopped ==
    /\ train_csv.status # "ok" => NotPast("read_train")
    /\ test_csv.status # "ok" => NotPast("read_test")
    /\ train_csv.status = "ok" =>
         /\ "compliance" \notin train_csv.columns => NotPast("filter")
         /\ "payment_date" \notin train_csv.columns => NotPast("drop_train")
    /\ (train_csv.status = "ok" /\ test_csv.status = "ok") =>
         /\ "clean_up_cost" \notin UnifiedColumns => NotPast("unique")
         /\ "city" \notin UnifiedColumns => NotPast("drop_common")
         /\ "ticket_id" \notin UnifiedColumns => NotPast("set_index")
         /\ "violation_street_name" \notin UnifiedColumns => NotPast("encode")
    /\ error # "none" =>
         /\ pc # "done"
         /\ defined = UNION {BoundBy(k) : k \in 1..(Position(pc) - 1)}
         /\ "ans" \notin defined /\ ans = EmptySeries /\ result = <<>>
         /\ NotPast("split") => X_train = EmptyFrame /\ X_test = EmptyFrame
         /\ NotPast("fit") => grid_clf_auc = Unfitted
    /\ error = "ValueError" => pc = "fit"

\* C10: a missing or malformed file, or an absent column that a statement
\* names, stops the run at that statement: no later statement runs and no
\* output is produced; a failure of the fit stops the run the same way, and
\* nothing, the fit included, runs after a failure.
C10_ErrorsFatal == []C10_Stopped /\ [][error = "none"]_vars

C10_Witness ==
    /\ error = "KeyError" /\ pc = "drop_common"
    /\ "city" \notin UnifiedColumns
    /\ len(df) = 2

\* the rows of train.csv whose outcome is none of 0, 1 and null
Unrecognized ==
    {i \in 1..Len(train_csv.rows) :
        train_csv.rows[i]["compliance"] \notin {0, 1, NaN}}

\* the rows of train.csv whose outcome is null
NotApplicable ==
    {i \in 1..Len(train_csv.rows) : train_csv.rows[i]["compliance"] = NaN}

\* C11: a training row whose outcome is none of 0, 1 and null is treated
\* like a row with a null outcome: the Filter removes it, the filter raises
\* no error because of it, and the rows with outcome 0 or 1 stay; the
\* features and the labels of the run hold none of these rows.
C11_UnrecognizedDropped ==
    /\ (train_csv.status = "ok" /\ "compliance" \in train_csv.columns) =>
          ~(pc = "filter" /\ error # "none")
    /\ Filtered =>
         /\ \A i \in Unrecognized \cup NotApplicable :
              i - 1 \notin Range(train.index)
         /\ \A i \in 1..Len(train_csv.rows) :
              i \notin Unrecognized \cup NotApplicable
                  => i - 1 \in Range(train.index)
         /\ len(train) = Len(train_csv.rows)
                           - Cardinality(Unrecognized \cup NotApplicable)
    /\ Splitted =>
         /\ len(X_train) = Len(train_csv.rows)
                             - Cardinality(Unrecognized \cup NotApplicable)
         /\ \A i \in Unrecognized :
              train_csv.rows[i]["ticket_id"] \notin Range(X_train.index)

C11_Witness ==
    /\ pc = "done" /\ error = "none"
    /\ Len(train_csv.rows) = 2
    /\ Unrecognized = {1}
    /\ X_train.index = <<27586>>
    /\ Len(ans.values) = 2

\* C12: the grid has the 9 combinations of learning rate 0.01, 0.1, 1 with
\* max depth 3, 4, 5; the combination the search chooses is one of them and
\* no combination of the grid has a higher cross-validated score; the
\* predictions are those of the estimator fitted with the chosen one.
C12_BestOfGrid ==
    grid_clf_auc.fitted =>
        LET best == grid_clf_auc.best_index
            scores == grid_clf_auc.cv_scores
        IN /\ Len(grid_values) = 9
           /\ Range(grid_values) =
                 {[learning_rate |-> l, max_depth |-> d] :
                     l \in {1, 10, 100}, d \in {3, 4, 5}}
           /\ DOMAIN scores = 1..Len(grid_values)
           /\ best \in 1..Len(grid_values)
           /\ \A j \in 1..Len(grid_values) : scores[j] <= scores[best]
           /\ "result" \in defined =>
                /\ Len(result) = len(X_test)
                /\ \A i \in 1..len(X_test) :
                     LET q == Proba(grid_values[best], X_test.data[i])
                     IN result[i] = <<100 - q, q>>

\* two combinations tie for the best score and the rows differ
C12_Witness ==
    /\ pc = "done"
    /\ grid_clf_auc.cv_scores[2] = 80 /\ grid_clf_auc.cv_scores[6] = 80
    /\ grid_values[grid_clf_auc.best_index] = [learning_rate |-> 1, max_depth |-> 4]
    /\ Len(result) = 2
    /\ result[1] # result[2]

Labelled == Filtered /\ ~Before({"read_test", "label"})

\* C13: the labels are taken from the filtered training table before its
\* outcome column is dropped: from then on, through the column drops, the
\* concatenation, the indexing and the encoding, the label vector has one
\* entry per filtered training row, the i-th being the outcome of the i-th
\* filtered record, each 0 or 1; what the fit gets has as many entries as
\* the training features have rows, the i-th entry being the outcome of the
\* record in their i-th row.
C13_LabelsAligned ==
    /\ Labelled =>
         LET ds == DefinedSeq IN
         /\ Len(train_label.values) = Len(ds)
         /\ Len(train_label.values) = len(train)
         /\ train_label.index = train.index
         /\ \A k \in 1..Len(ds) :
              /\ train_label.values[k] = train_csv.rows[ds[k]]["compliance"]
              /\ train_label.values[k] \in {0, 1}
              /\ train_label.index[k] = ds[k] - 1
    /\ Splitted =>
         /\ y_train = train_label
         /\ Len(y_train.values) = len(X_train)
         /\ \A k \in 1..len(X_train) :
              \E i \in 1..Len(train_csv.rows) :
                  /\ train_csv.rows[i]["ticket_id"] = X_train.index[k]
                  /\ train_csv.rows[i]["compliance"] = y_train.values[k]
                  /\ y_train.index[k] = i - 1

\* the first row of the file is filtered out: the one label is that of the
\* second row, after the columns were dropped and the table encoded
C13_Witness ==
    /\ pc = "predict"
    /\ Len(train_csv.rows) = 2
    /\ train_csv.rows[1]["compliance"] = NaN
    /\ "compliance" \notin train.columns
    /\ y_train.values = <<1>>
    /\ y_train.index = <<1>>
    /\ X_train.index = <<27586>>

====
